---- MODULE Spec2Model ----
(***************************************************************************)
(* Model of pcap.Server (src/pcap/server.go): the listen-side handler      *)
(* handleListen (with handshake), the upstream-side handler handleUpstream *)
(* and the tables they share: seqs, acks, id, port, portDist, nat.         *)
(*                                                                         *)
(* In Spec and SpecCursor each handler invocation is one atomic action; in *)
(* SpecRace the handlers run on the goroutines of Open, one access to a    *)
(* shared field at a time.  Frames are records of the fields the handlers  *)
(* read from the packet indicator; a serialized frame is the record of its *)
(* layers, and its length is computed from the header sizes of the layers. *)
(***************************************************************************)
EXTENDS Integers, Naturals, Sequences, FiniteSets, TLC

VARIABLES
    seqs,       \* Server.seqs      map[string]uint32
    acks,       \* Server.acks      map[string]uint32
    id,         \* Server.id        uint16
    port,       \* Server.port      uint16
    portDist,   \* Server.portDist  map[quintuple]uint16
    nat,        \* Server.nat       map[quintuple]encappedPacketSrc
    written,    \* WritePacketData calls made by the last handler invocation
    ev,         \* the last handler invocation and its input
    nev,        \* number of handler invocations so far
    isn,        \* history: Seq of the last SYN processed, per client
    rcvd,       \* history: number of payload bytes received in non-SYN frames since that SYN
    sent,       \* history: number of payload bytes successfully written to the client since that SYN
    synSeen,    \* history: clients whose SYN has been processed
    fwd,        \* history: one record per inner packet taken through port distribution
    thr         \* per goroutine of Open: its position in the handler and its local variables

vars == <<seqs, acks, id, port, portDist, nat, written, ev, nev, isn, rcvd, sent, synSeen, fwd,
          thr>>

-----------------------------------------------------------------------------
(* Bounds *)

MaxEvents == 3

-----------------------------------------------------------------------------
(* Integer widths *)

M16 == 2^16
M8  == 2^8

\* A uint32 is the pair <<high 16 bits, low 16 bits>>: its value is hi * 2^16 + lo.
U32(hi, lo) == <<hi, lo>>
Zero32 == U32(0, 0)
Max32 == U32(M16 - 1, M16 - 1)

\* a + n in uint32 arithmetic (wraps at 2^32), for a natural n below 2^16
Add32(a, n) ==
    LET lo == a[2] + n
    IN U32((a[1] + (lo \div M16)) % M16, lo % M16)

\* a < b and a <= b as unsigned 32-bit values
Lt32(a, b) == a[1] < b[1] \/ (a[1] = b[1] /\ a[2] < b[2])
Le32(a, b) == a = b \/ Lt32(a, b)

-----------------------------------------------------------------------------
(* Configuration of the server: immutable after Open *)

ListenPort == 8080
ListenHandles == {"listen0", "listen1"}
UpHandle == "up"
\* a nil pointer or interface (no application layer)
Nil == [nil |-> TRUE]
\* a nil net.IP
NoAddr == ""

V4Addrs == {"10.0.0.2", "192.0.2.1", "198.51.100.1", "8.8.8.8", "1.1.1.1", "192.0.2.254"}
V6Addrs == {"fd00::2", "fd00::1", "2001:db8::1", "2001:4860::8888"}

\* net.IP.To4() != nil
IsV4(ip) == ip \in V4Addrs

UpDevIPv4 == "198.51.100.1"
UpDevIPv6 == "2001:db8::1"
UpDevIsLoop == FALSE
UpDevHardwareAddr == "02:00:00:00:00:01"
GatewayHardwareAddr == "02:00:00:00:00:fe"
GatewayIP == "192.0.2.254"

LayerTypeZero == "Zero"
LayerTypeLoopback == "Loopback"
LayerTypeEthernet == "Ethernet"
LayerTypeIPv4 == "IPv4"
LayerTypeIPv6 == "IPv6"
LayerTypeTCP == "TCP"
LayerTypeUDP == "UDP"

-----------------------------------------------------------------------------
(* Go map helpers *)

\* m[k] of a Go map: the zero value when the key is absent
Get(m, k) == IF k \in DOMAIN m THEN m[k] ELSE Zero32

\* m[k] = v of a Go map: creates the key when absent
Put(m, k, v) == [x \in DOMAIN m \cup {k} |-> IF x = k THEN v ELSE m[x]]

EmptyMap == [x \in {} |-> 0]

\* a history counter: 0 when nothing was counted for k
Count(m, k) == IF k \in DOMAIN m THEN m[k] ELSE 0

-----------------------------------------------------------------------------
(* Frames captured on the listen handles and on the upstream handle *)

Clients == {[ip |-> "10.0.0.2", port |-> 40000], [ip |-> "fd00::2", port |-> 40001]}

\* the server's own address on the listen device, in the client's family
ListenIP(c) == IF IsV4(c.ip) THEN "192.0.2.1" ELSE "fd00::1"

\* initial sequence numbers of the clients' SYNs: a small one, one whose successor
\* wraps to 0, and one close enough to 2^32 for the ack to wrap on the first data
ISNs == {U32(0, 42), U32(M16 - 1, M16 - 6), Max32}

\* encapsulated packets a client sends as the payload of a carrier segment
InnerPackets ==
    { [NetworkLayerType |-> LayerTypeIPv4, TransportLayerType |-> LayerTypeUDP,
       SrcIP |-> "10.0.0.2", SrcPort |-> 55555, DstIP |-> "8.8.8.8", DstPort |-> 53,
       Id |-> 7, TTL |-> 64, PayloadLen |-> 12],
      [NetworkLayerType |-> LayerTypeIPv4, TransportLayerType |-> LayerTypeUDP,
       SrcIP |-> "10.0.0.2", SrcPort |-> 55556, DstIP |-> "1.1.1.1", DstPort |-> 53,
       Id |-> 8, TTL |-> 64, PayloadLen |-> 12],
      [NetworkLayerType |-> LayerTypeIPv4, TransportLayerType |-> LayerTypeTCP,
       SrcIP |-> "10.0.0.2", SrcPort |-> 55555, DstIP |-> "8.8.8.8", DstPort |-> 53,
       Id |-> 9, TTL |-> 0, PayloadLen |-> 3],
      [NetworkLayerType |-> LayerTypeIPv6, TransportLayerType |-> LayerTypeUDP,
       SrcIP |-> "fd00::2", SrcPort |-> 55555, DstIP |-> "2001:4860::8888", DstPort |-> 53,
       Id |-> 0, TTL |-> 64, PayloadLen |-> 12] }

\* application payloads that parseEncappedPacket rejects
BadPayloads == { [Unparseable |-> TRUE, Len |-> 5] }

NetworkHeaderLen(t) == IF t = LayerTypeIPv4 THEN 20 ELSE 40
TransportHeaderLen(t) == IF t = LayerTypeTCP THEN 20 ELSE 8

\* length in bytes of a serialized network+transport+payload packet
PacketLen(pkt) ==
    NetworkHeaderLen(pkt.NetworkLayerType) + TransportHeaderLen(pkt.TransportLayerType)
        + pkt.PayloadLen

\* len(indicator.ApplicationLayer.LayerContents())
AppLen(app) == IF "Unparseable" \in DOMAIN app THEN app.Len ELSE PacketLen(app)

CarrierFrame(c, seq, syn, app) ==
    [SrcIP |-> c.ip, SrcPort |-> c.port, DstIP |-> ListenIP(c), DstPort |-> ListenPort,
     Seq |-> seq, SYN |-> syn, ApplicationLayer |-> app]

\* a frame that parsePacket rejects
Malformed == [Malformed |-> TRUE]

\* frames that pass the listen BPF filter
ListenFrames ==
    {Malformed}
    \cup { CarrierFrame(c, s, TRUE, Nil) : c \in Clients, s \in ISNs }
    \cup { CarrierFrame(c, Zero32, FALSE, Nil) : c \in Clients }
    \cup { CarrierFrame(c, Zero32, FALSE, a) : c \in Clients, a \in BadPayloads }
    \cup { f \in { CarrierFrame(c, Zero32, FALSE, a) : c \in Clients, a \in InnerPackets } :
               IsV4(f.SrcIP) = (f.ApplicationLayer.NetworkLayerType = LayerTypeIPv4) }

UpstreamFrame(net, t, src, dst, dport, ttl) ==
    [NetworkLayerType |-> net, TransportLayerType |-> t,
     SrcIP |-> src, SrcPort |-> 53, DstIP |-> dst, DstPort |-> dport,
     Id |-> 100, TTL |-> ttl, PayloadLen |-> 30]

\* frames that pass the upstream BPF filter: replies of the remote hosts addressed to
\* the server's upstream address, to allocated ports and to inner source ports
UpstreamFrames ==
    { Malformed,
      UpstreamFrame(LayerTypeIPv4, LayerTypeUDP, "8.8.8.8", UpDevIPv4, 49152, 57),
      UpstreamFrame(LayerTypeIPv4, LayerTypeUDP, "8.8.8.8", UpDevIPv4, 55555, 57),
      UpstreamFrame(LayerTypeIPv4, LayerTypeUDP, "1.1.1.1", UpDevIPv4, 49153, 57),
      UpstreamFrame(LayerTypeIPv4, LayerTypeTCP, "8.8.8.8", UpDevIPv4, 55555, 0),
      UpstreamFrame(LayerTypeIPv6, LayerTypeUDP, "2001:4860::8888", UpDevIPv6, 55555, 57) }

-----------------------------------------------------------------------------
(* Layer codec: builders of the layers the handlers synthesize *)

\* indicator.SrcAddr() and fmt.Sprintf("%s:%d", ip, port)
AddrKey(ip, p) == <<ip, p>>

createTCPLayerSYNACK(srcPort, dstPort, seq, ack) ==
    [type |-> LayerTypeTCP, SrcPort |-> srcPort, DstPort |-> dstPort,
     Seq |-> seq, Ack |-> ack, SYN |-> TRUE, ACK |-> TRUE]

createTransportLayerTCP(srcPort, dstPort, seq, ack) ==
    [type |-> LayerTypeTCP, SrcPort |-> srcPort, DstPort |-> dstPort,
     Seq |-> seq, Ack |-> ack, SYN |-> FALSE, ACK |-> TRUE]

createNetworkLayerIPv4(src, dst, ipid, ttl, transport) ==
    [type |-> LayerTypeIPv4, SrcIP |-> src, DstIP |-> dst, Id |-> ipid, TTL |-> ttl,
     Protocol |-> transport.type]

createNetworkLayerIPv6(src, dst, transport) ==
    [type |-> LayerTypeIPv6, SrcIP |-> src, DstIP |-> dst, NextHeader |-> transport.type]

createLinkLayerLoopback == [type |-> LayerTypeLoopback]

createLinkLayerEthernet(srcHw, dstHw, network) ==
    [type |-> LayerTypeEthernet, SrcMAC |-> srcHw, DstMAC |-> dstHw, EtherType |-> network.type]

serialize(link, network, transport, payloadLen) ==
    [link |-> link, network |-> network, transport |-> transport, payloadLen |-> payloadLen]

\* one call of handle.WritePacketData(data) and whether the driver accepted it
WriteCall(h, data, ok) == [handle |-> h, data |-> data, ok |-> ok]

-----------------------------------------------------------------------------
(* Init: the server after Open has made its maps, before any frame is read *)

\* the goroutines of Open: one reader per listen handle and the upstream reader
Goroutines == ListenHandles \cup {UpHandle}

\* a goroutine waiting for the next packet of its packet source; n counts the p.port++
\* statements it has completed
IdleThread ==
    [pc |-> "idle", packet |-> Nil, handle |-> "", seq |-> Zero32, ack |-> Zero32,
     ipid |-> 0, dPort |-> 0, tmp |-> 0, ps |-> Nil, n |-> 0]

Init ==
    /\ thr = [g \in Goroutines |-> IdleThread]
    /\ seqs = EmptyMap
    /\ acks = EmptyMap
    /\ id = 0
    /\ port = 0
    /\ portDist = EmptyMap
    /\ nat = EmptyMap
    /\ written = <<>>
    /\ ev = [kind |-> "open"]
    /\ nev = 0
    /\ isn = EmptyMap
    /\ rcvd = EmptyMap
    /\ sent = EmptyMap
    /\ synSeen = {}
    /\ fwd = {}

-----------------------------------------------------------------------------
(* Server.handshake *)

\* mutant: the initial sequence number is not 0
HandshakeSeq_One == U32(0, 1)

\* p.seqs[srcAddr] = 0
HandshakeSeq == Zero32

\* mutant: the ack is the client's sequence number, not its successor
HandshakeAck_NoInc(indicator) == indicator.Seq

\* p.acks[srcAddr] = indicator.Seq + 1   (uint32)
HandshakeAck(indicator) == Add32(indicator.Seq, 1)

\* the network layer type of the SYN+ACK
HandshakeNetworkLayerType(indicator) ==
    IF IsV4(indicator.DstIP) THEN LayerTypeIPv4 ELSE LayerTypeIPv6

\* Loopback or Ethernet, as handshake and handleListen decide it
LinkLayerType == IF UpDevIsLoop THEN LayerTypeLoopback ELSE LayerTypeEthernet

LinkLayer(network) ==
    IF LinkLayerType = LayerTypeLoopback
    THEN createLinkLayerLoopback
    ELSE createLinkLayerEthernet(UpDevHardwareAddr, GatewayHardwareAddr, network)

\* the serialized SYN+ACK frame
HandshakeData(indicator, seq, ack, ipid) ==
    LET newTransportLayer == createTCPLayerSYNACK(ListenPort, indicator.SrcPort, seq, ack)
        newNetworkLayer ==
            IF HandshakeNetworkLayerType(indicator) = LayerTypeIPv4
            THEN createNetworkLayerIPv4(indicator.DstIP, indicator.SrcIP, ipid, 128, newTransportLayer)
            ELSE createNetworkLayerIPv6(indicator.DstIP, indicator.SrcIP, newTransportLayer)
    IN serialize(LinkLayer(newNetworkLayer), newNetworkLayer, newTransportLayer, 0)

\* mutant: the IPv4 id is consumed whether or not the write succeeded
HandshakeId_Always(indicator, wok) ==
    IF HandshakeNetworkLayerType(indicator) = LayerTypeIPv4
    THEN (id + 1) % M16
    ELSE id

\* p.id++ after the write, for IPv4 only; unchanged when the write failed
HandshakeId(indicator, wok) ==
    IF wok /\ HandshakeNetworkLayerType(indicator) = LayerTypeIPv4
    THEN (id + 1) % M16
    ELSE id

handshake(indicator, wok) ==
    LET srcAddr == AddrKey(indicator.SrcIP, indicator.SrcPort)
        seqs1 == Put(seqs, srcAddr, HandshakeSeq)
        acks1 == Put(acks, srcAddr, HandshakeAck(indicator))
    IN /\ seqs' = seqs1
       /\ acks' = acks1
       /\ written' = << WriteCall(UpHandle,
                          HandshakeData(indicator, seqs1[srcAddr], acks1[srcAddr], id), wok) >>
       /\ id' = HandshakeId(indicator, wok)
       /\ isn' = Put(isn, srcAddr, indicator.Seq)
       /\ rcvd' = Put(rcvd, srcAddr, 0)
       /\ sent' = Put(sent, srcAddr, 0)
       /\ synSeen' = synSeen \cup {srcAddr}
       /\ UNCHANGED <<port, portDist, nat, fwd>>

-----------------------------------------------------------------------------
(* Server.handleListen *)

\* mutant: the ack is not advanced by a data segment
DataAck_Skip(old, n) == old

\* mutant: the ack is assigned the payload length instead of advanced by it
DataAck_Assign(old, n) == U32(0, n)

\* p.acks[srcAddr] = p.acks[srcAddr] + uint32(len(contents))
DataAck(old, n) == Add32(old, n)

\* the key of the forward port-allocation table
QPortDist(indicator, enc) ==
    [SrcIP |-> enc.SrcIP, SrcPort |-> enc.SrcPort,
     DstIP |-> indicator.SrcIP, DstPort |-> indicator.SrcPort,
     Protocol |-> enc.TransportLayerType]

\* mutant: the cursor is not reduced modulo 16384
distPort_NoMod == (49152 + port) % M16

\* Server.distPort, in uint16 arithmetic
distPort == (49152 + (port % 16384)) % M16

\* distPort, ok := p.portDist[q]; if !ok { distPort = p.distPort() ... }
LookupPort(q) == IF q \in DOMAIN portDist THEN portDist[q] ELSE distPort

\* ... if !ok { ...; p.port++ }
PortAfter(q) == IF q \in DOMAIN portDist THEN port ELSE (port + 1) % M16

\* the forward table after port distribution: handleListen never assigns to p.portDist
PortDistAfter(q, dPort) == portDist

\* the key of the reverse NAT table
QNAT(enc) ==
    [SrcIP |-> UpDevIPv4, SrcPort |-> enc.SrcPort,
     DstIP |-> enc.DstIP, DstPort |-> enc.DstPort,
     Protocol |-> enc.TransportLayerType]

\* the reverse NAT entry
PacketSrc(indicator, q, handle) ==
    [SrcIP |-> indicator.SrcIP, SrcPort |-> indicator.SrcPort,
     EncappedSrcIP |-> q.SrcIP, EncappedSrcPort |-> q.SrcPort,
     Handle |-> handle]

\* mutant: the TTL of the encapsulated packet is forwarded as it came
ForwardData_KeepTTL(enc, dPort) ==
    LET transport == [type |-> enc.TransportLayerType, SrcPort |-> dPort, DstPort |-> enc.DstPort]
        newNetworkLayer ==
            IF enc.NetworkLayerType = LayerTypeIPv4
            THEN createNetworkLayerIPv4(UpDevIPv4, enc.DstIP, enc.Id, enc.TTL, transport)
            ELSE createNetworkLayerIPv6(UpDevIPv6, enc.DstIP, transport)
    IN serialize(LinkLayer(newNetworkLayer), newNetworkLayer, transport, enc.PayloadLen)

\* the frame redirected upstream: source port rewritten, new network and link layers
ForwardData(enc, dPort) ==
    LET transport == [type |-> enc.TransportLayerType, SrcPort |-> dPort, DstPort |-> enc.DstPort]
        newNetworkLayer ==
            IF enc.NetworkLayerType = LayerTypeIPv4
            THEN createNetworkLayerIPv4(UpDevIPv4, enc.DstIP, enc.Id, (enc.TTL - 1) % M8, transport)
            ELSE createNetworkLayerIPv6(UpDevIPv6, enc.DstIP, transport)
    IN serialize(LinkLayer(newNetworkLayer), newNetworkLayer, transport, enc.PayloadLen)

\* history record of one inner packet taken through port distribution and written upstream
FwdRecord(indicator, enc, q, dPort, handle, wok) ==
    [q |-> q, port |-> dPort, handle |-> handle, ok |-> wok,
     client |-> AddrKey(indicator.SrcIP, indicator.SrcPort),
     S |-> <<enc.SrcIP, enc.SrcPort>>, D |-> <<enc.DstIP, enc.DstPort>>,
     protocol |-> enc.TransportLayerType, family |-> enc.NetworkLayerType]

\* mutant: the ack is advanced, by the zero length, before the payload is looked at
ListenEmpty_TouchesAck(indicator) ==
    /\ written' = <<>>
    /\ acks' = Put(acks, AddrKey(indicator.SrcIP, indicator.SrcPort),
                   DataAck(Get(acks, AddrKey(indicator.SrcIP, indicator.SrcPort)), 0))
    /\ UNCHANGED <<seqs, id, port, portDist, nat, isn, rcvd, sent, synSeen, fwd>>

\* if indicator.ApplicationLayer == nil { return }
ListenEmpty(indicator) ==
    /\ written' = <<>>
    /\ UNCHANGED <<seqs, acks, id, port, portDist, nat, isn, rcvd, sent, synSeen, fwd>>

handleListen(packet, handle, wok) ==
    /\ nev < MaxEvents
    /\ nev' = nev + 1
    /\ ev' = [kind |-> "listen", packet |-> packet]
    /\ UNCHANGED thr
    /\ IF packet = Malformed
       THEN \* parsePacket failed
            /\ written' = <<>>
            /\ UNCHANGED <<seqs, acks, id, port, portDist, nat, isn, rcvd, sent, synSeen, fwd>>
       ELSE IF packet.SYN
       THEN handshake(packet, wok)
       ELSE IF packet.ApplicationLayer = Nil
       THEN ListenEmpty(packet)
       ELSE LET srcAddr == AddrKey(packet.SrcIP, packet.SrcPort)
                app == packet.ApplicationLayer
            IN /\ acks' = Put(acks, srcAddr, DataAck(Get(acks, srcAddr), AppLen(app)))
               /\ rcvd' = Put(rcvd, srcAddr, Count(rcvd, srcAddr) + AppLen(app))
               /\ IF app \in BadPayloads
                  THEN \* parseEncappedPacket failed
                       /\ written' = <<>>
                       /\ UNCHANGED <<seqs, id, port, portDist, nat, isn, sent, synSeen, fwd>>
                  ELSE LET q == QPortDist(packet, app)
                           dPort == LookupPort(q)
                       IN /\ port' = PortAfter(q)
                          /\ portDist' = PortDistAfter(q, dPort)
                          /\ nat' = Put(nat, QNAT(app), PacketSrc(packet, q, handle))
                          /\ written' = << WriteCall(UpHandle, ForwardData(app, dPort), wok) >>
                          /\ fwd' = fwd \cup {FwdRecord(packet, app, q, dPort, handle, wok)}
                          /\ UNCHANGED <<seqs, id, isn, sent, synSeen>>

-----------------------------------------------------------------------------
(* Server.handleUpstream *)

\* the key looked up in the reverse NAT table
UpstreamKey(indicator) ==
    [SrcIP |-> indicator.DstIP, SrcPort |-> indicator.DstPort,
     DstIP |-> indicator.SrcIP, DstPort |-> indicator.SrcPort,
     Protocol |-> indicator.TransportLayerType]

\* the parsed packet after "NAT back": source port and source IP set from the entry
NATBack(indicator, ps) ==
    [indicator EXCEPT !.SrcPort = ps.EncappedSrcPort, !.SrcIP = ps.EncappedSrcIP]

\* len(indicator.Contents()): the serialized network, transport and payload
ContentsLen(indicator) == PacketLen(indicator)

\* isIPv4 := p.GatewayDev.IPAddr().IP.To4() != nil
UpstreamNetworkLayerType == IF IsV4(GatewayIP) THEN LayerTypeIPv4 ELSE LayerTypeIPv6

\* upDevIP
UpstreamDevIP == IF IsV4(GatewayIP) THEN UpDevIPv4 ELSE UpDevIPv6

\* newLinkLayerType in handleUpstream: declared, never assigned, so the zero LayerType
UpstreamLinkLayerType == LayerTypeZero

\* the carrier segment that wraps the restored packet
UpstreamData(indicator, ps, seq, ack, ipid) ==
    LET inner == NATBack(indicator, ps)
        newTransportLayer == createTransportLayerTCP(ListenPort, ps.SrcPort, seq, ack)
        newNetworkLayer ==
            IF UpstreamNetworkLayerType = LayerTypeIPv4
            THEN createNetworkLayerIPv4(UpstreamDevIP, ps.SrcIP, ipid,
                                        (indicator.TTL - 1) % M8, newTransportLayer)
            ELSE createNetworkLayerIPv6(UpstreamDevIP, ps.SrcIP, newTransportLayer)
        newLinkLayer ==
            IF UpstreamLinkLayerType = LayerTypeLoopback
            THEN createLinkLayerLoopback
            ELSE createLinkLayerEthernet(UpDevHardwareAddr, GatewayHardwareAddr, newNetworkLayer)
    IN [link |-> newLinkLayer, network |-> newNetworkLayer, transport |-> newTransportLayer,
        payloadLen |-> ContentsLen(inner), inner |-> inner]

\* p.seqs[addr] = p.seqs[addr] + uint32(len(contents))
UpstreamSeq(old, n) == Add32(old, n)

\* mutant: the IPv4 id is consumed before the reverse NAT lookup
UpstreamMiss_TakesId ==
    /\ written' = <<>>
    /\ id' = (id + 1) % M16
    /\ UNCHANGED <<seqs, sent>>

\* ps, ok := p.nat[q]; if !ok { return }
UpstreamMiss ==
    /\ written' = <<>>
    /\ UNCHANGED <<seqs, id, sent>>

handleUpstream(packet, wok) ==
    /\ nev < MaxEvents
    /\ nev' = nev + 1
    /\ ev' = [kind |-> "upstream", packet |-> packet]
    /\ UNCHANGED <<acks, port, portDist, nat, isn, rcvd, synSeen, fwd, thr>>
    /\ IF packet = Malformed
       THEN \* parsePacket failed
            /\ written' = <<>>
            /\ UNCHANGED <<seqs, id, sent>>
       ELSE IF UpstreamKey(packet) \notin DOMAIN nat
       THEN UpstreamMiss
       ELSE LET ps == nat[UpstreamKey(packet)]
                addr == AddrKey(ps.SrcIP, ps.SrcPort)
                data == UpstreamData(packet, ps, Get(seqs, addr), Get(acks, addr), id)
            IN IF UpstreamDevIP = NoAddr
               THEN \* ip version transition not support
                    /\ written' = <<>>
                    /\ UNCHANGED <<seqs, id, sent>>
               ELSE IF UpstreamLinkLayerType \notin {LayerTypeLoopback, LayerTypeEthernet}
               THEN \* create link layer: type not support
                    /\ written' = <<>>
                    /\ UNCHANGED <<seqs, id, sent>>
               ELSE /\ written' = << WriteCall(ps.Handle, data, wok) >>
                    /\ IF wok
                       THEN /\ seqs' = Put(seqs, addr, UpstreamSeq(Get(seqs, addr), data.payloadLen))
                            /\ sent' = Put(sent, addr, Count(sent, addr) + data.payloadLen)
                            /\ id' = IF UpstreamNetworkLayerType = LayerTypeIPv4
                                     THEN (id + 1) % M16 ELSE id
                       ELSE UNCHANGED <<seqs, id, sent>>

-----------------------------------------------------------------------------
(* The readers started by Open: one per listen handle, one for the upstream handle *)

\* the position of a listen handle in p.listenHandles
HandleIndex(h) == IF h = "listen0" THEN 0 ELSE 1

\* The values the reader goroutine started for handle r can read from `handle` when it
\* calls p.handleListen(packet, handle): the closure captures the loop variable of
\* "for _, handle := range p.listenHandles", which the loop goes on assigning while
\* the goroutine runs, so it reads the handle of its own or of a later iteration.
LoopHandles(r) == {h \in ListenHandles : HandleIndex(h) >= HandleIndex(r)}

\* the listen device a client's frames arrive on: the one that has the server's
\* address of the client's family
CapturedOn(packet) == IF IsV4(packet.SrcIP) THEN "listen0" ELSE "listen1"

\* the frames the packet source of listen handle r delivers
FramesOn(r) == {f \in ListenFrames : f = Malformed \/ CapturedOn(f) = r}

\* the goroutine reading the packet source of listen handle r
ListenReader ==
    \E r \in ListenHandles :
        \E packet \in FramesOn(r), h \in LoopHandles(r), wok \in BOOLEAN :
            handleListen(packet, h, wok)

UpstreamReader ==
    \E packet \in UpstreamFrames, wok \in BOOLEAN :
        handleUpstream(packet, wok)

Next ==
    \/ ListenReader
    \/ UpstreamReader

Spec == Init /\ [][Next]_vars

\* values the uint16 port cursor takes after p.port++ has run that many times: around
\* the ends of the 16384-port cycle and around the 16-bit wrap of the cursor
CursorStarts == {16383, 16384, 32767, 65534, 65535}

\* the value of the uint16 IPv4 id after p.id++ has run 65535 times
IdStarts == {65535}

\* the server in operation: as Init, or later with the cursor at one of CursorStarts or
\* the IPv4 id at one of IdStarts (from those states the exploration is one invocation
\* shorter)
InitCursor ==
    \/ Init
    \/ /\ id \in IdStarts
       /\ nev = 1
       /\ thr = [g \in Goroutines |-> IdleThread]
       /\ seqs = EmptyMap /\ acks = EmptyMap /\ port = 0
       /\ portDist = EmptyMap /\ nat = EmptyMap
       /\ written = <<>> /\ ev = [kind |-> "open"]
       /\ isn = EmptyMap /\ rcvd = EmptyMap /\ sent = EmptyMap
       /\ synSeen = {} /\ fwd = {}
    \/ /\ port \in CursorStarts
       /\ nev = 1
       /\ thr = [g \in Goroutines |-> IdleThread]
       /\ seqs = EmptyMap /\ acks = EmptyMap /\ id = 0
       /\ portDist = EmptyMap /\ nat = EmptyMap
       /\ written = <<>> /\ ev = [kind |-> "open"]
       /\ isn = EmptyMap /\ rcvd = EmptyMap /\ sent = EmptyMap
       /\ synSeen = {} /\ fwd = {}

SpecCursor == InitCursor /\ [][Next]_vars

-----------------------------------------------------------------------------
(* Vocabulary of the properties *)

\* the last invocation was handleListen on a parsed frame with SYN set
IsSyn(e) == e.kind = "listen" /\ e.packet # Malformed /\ e.packet.SYN

\* the last invocation was handleListen on a parsed non-SYN frame with a payload
IsData(e) ==
    e.kind = "listen" /\ e.packet # Malformed /\ ~e.packet.SYN /\ e.packet.ApplicationLayer # Nil

\* ... whose payload parsed as an encapsulated packet
IsForward(e) == IsData(e) /\ e.packet.ApplicationLayer \notin BadPayloads

\* the last invocation was handleUpstream on a parsed frame
IsUpstream(e) == e.kind = "upstream" /\ e.packet # Malformed

\* the client that sent a parsed listen-side frame
ClientOf(e) == AddrKey(e.packet.SrcIP, e.packet.SrcPort)

\* b is a + 1 modulo 2^32, by cases on the carries
IsSucc32(a, b) ==
    \/ a[2] < M16 - 1 /\ b = U32(a[1], a[2] + 1)
    \/ a[2] = M16 - 1 /\ a[1] < M16 - 1 /\ b = U32(a[1] + 1, 0)
    \/ a = Max32 /\ b = Zero32

\* b - a modulo 2^32 is the natural n (n below 2^16), by subtraction with borrow
IsPlus32(a, n, b) ==
    LET borrow == IF b[2] < a[2] THEN 1 ELSE 0
    IN /\ (b[2] - a[2]) % M16 = n
       /\ (b[1] - a[1] - borrow) % M16 = 0

-----------------------------------------------------------------------------
(* C1 *)

\* C1: when handleListen processes a SYN frame from client c with sequence number s,
\* it sets seqs[c] = 0 and acks[c] = s + 1 mod 2^32 and calls WritePacketData exactly
\* once, on the upstream handle, with a SYN+ACK from the listen port to the client
\* port, seq 0, ack s + 1 mod 2^32, network source the frame's destination IP and
\* network destination the client IP; portDist, port and nat are unchanged.
C1_SynAck ==
    [][ IsSyn(ev') =>
          LET c == ClientOf(ev')
              s == ev'.packet.Seq
          IN /\ c \in DOMAIN seqs' /\ seqs'[c] = Zero32
             /\ c \in DOMAIN acks' /\ IsSucc32(s, acks'[c])
             /\ Len(written') = 1
             /\ written'[1].handle = UpHandle
             /\ written'[1].data.transport.SYN /\ written'[1].data.transport.ACK
             /\ written'[1].data.transport.SrcPort = ListenPort
             /\ written'[1].data.transport.DstPort = ev'.packet.SrcPort
             /\ written'[1].data.transport.Seq = Zero32
             /\ IsSucc32(s, written'[1].data.transport.Ack)
             /\ written'[1].data.network.SrcIP = ev'.packet.DstIP
             /\ written'[1].data.network.DstIP = ev'.packet.SrcIP
             /\ UNCHANGED <<portDist, port, nat>> ]_vars

\* a SYN whose sequence number is 2^32 - 1 has been answered, after a port was allocated
C1_Witness ==
    /\ IsSyn(ev) /\ ev.packet.Seq = Max32
    /\ Len(written) = 1 /\ written[1].data.transport.Ack = Zero32
    /\ port > 0 /\ nat # EmptyMap

-----------------------------------------------------------------------------
(* C2 *)

\* C2: every forwarded frame that carries the same inner flow key is forwarded with the
\* same server-side source port (stated on the history of forwarded packets).
C2_StablePort ==
    \A x \in fwd : \A y \in fwd : x.q = y.q => x.port = y.port

-----------------------------------------------------------------------------
(* C3 *)

\* the reverse NAT key the claims expect for flow key q forwarded with port a
ExpectedNATKey(r, a) ==
    [SrcIP |-> UpDevIPv4, SrcPort |-> a, DstIP |-> r.D[1], DstPort |-> r.D[2],
     Protocol |-> r.protocol]

\* C3: for every inner flow key q that handleListen has processed, portDist[q] exists,
\* is in 49152..65535, and nat has an entry under (upstream ip, portDist[q], inner dst
\* ip, inner dst port, protocol) whose carrier source is the client that sent the frame.
C3_TablesAfterIngress ==
    \A r \in fwd :
        /\ r.q \in DOMAIN portDist
        /\ portDist[r.q] \in 49152..65535
        /\ ExpectedNATKey(r, portDist[r.q]) \in DOMAIN nat
        /\ AddrKey(nat[ExpectedNATKey(r, portDist[r.q])].SrcIP,
                   nat[ExpectedNATKey(r, portDist[r.q])].SrcPort) = r.client

-----------------------------------------------------------------------------
(* C4 *)

\* the upstream frame e.packet is a reply to the forwarded packet r: same protocol,
\* sent from r's inner destination, addressed to the upstream address and r's port
IsReplyTo(e, r) ==
    /\ IsUpstream(e)
    /\ e.packet.TransportLayerType = r.protocol
    /\ <<e.packet.SrcIP, e.packet.SrcPort>> = r.D
    /\ e.packet.DstIP = UpDevIPv4
    /\ e.packet.DstPort = r.port

\* C4: when handleUpstream has processed a reply to a packet that handleListen
\* forwarded with allocated port a, it has found the reverse NAT entry and written one
\* carrier segment whose destination is the client the packet came from and whose
\* inner source is the packet's inner source.
C4_RoundTrip ==
    \A r \in fwd :
        IsReplyTo(ev, r) =>
            /\ UpstreamKey(ev.packet) \in DOMAIN nat
            /\ Len(written) = 1
            /\ AddrKey(written[1].data.network.DstIP, written[1].data.transport.DstPort) = r.client
            /\ <<written[1].data.inner.SrcIP, written[1].data.inner.SrcPort>> = r.S

-----------------------------------------------------------------------------
(* C5 *)

\* the reverse NAT entry the last upstream frame hits (nat is not changed by handleUpstream)
IsHit(e) == IsUpstream(e) /\ UpstreamKey(e.packet) \in DOMAIN nat

\* C5: for an upstream frame that hits the reverse NAT table, handleUpstream calls
\* WritePacketData exactly once, on the entry's handle, with a carrier TCP segment from
\* the listen port to the entry's carrier source port whose seq and ack are
\* seqs[carrier_key] and acks[carrier_key] as they were before the call; after a
\* successful write seqs[carrier_key] has advanced by the length of the carrier payload.
C5_EgressEmits ==
    [][ IsHit(ev') =>
          LET ps == nat[UpstreamKey(ev'.packet)]
              k == AddrKey(ps.SrcIP, ps.SrcPort)
          IN /\ Len(written') = 1
             /\ written'[1].handle = ps.Handle
             /\ written'[1].data.transport.SrcPort = ListenPort
             /\ written'[1].data.transport.DstPort = ps.SrcPort
             /\ written'[1].data.transport.Seq = Get(seqs, k)
             /\ written'[1].data.transport.Ack = Get(acks, k)
             /\ written'[1].ok =>
                  IsPlus32(Get(seqs, k), PacketLen(ev'.packet), Get(seqs', k)) ]_vars

-----------------------------------------------------------------------------
(* C6 *)

\* C6: for every client c with a session, seqs[c] equals modulo 2^32 the number of
\* carrier payload bytes successfully written to c's listen handle since the session
\* was created.
C6_SeqIsBytesSent ==
    \A c \in DOMAIN seqs : IsPlus32(Zero32, Count(sent, c), seqs[c])

\* handleUpstream has processed a reply that hit the reverse NAT entry of a client
\* that has a session
C6_Witness ==
    /\ IsHit(ev)
    /\ AddrKey(nat[UpstreamKey(ev.packet)].SrcIP, nat[UpstreamKey(ev.packet)].SrcPort)
           \in DOMAIN seqs

-----------------------------------------------------------------------------
(* C7 *)

\* C7: for every client c that has sent a SYN with sequence number isn, acks[c] is
\* isn + 1 + (payload bytes received from c in non-SYN frames after that SYN) modulo
\* 2^32, the payloads that failed to parse included.
C7_AckIsBytesReceived ==
    \A c \in synSeen :
        /\ c \in DOMAIN acks
        /\ acks[c] = Add32(Add32(isn[c], 1), rcvd[c])

\* a client with a session has sent an unparseable payload after an earlier payload
C7_Witness ==
    /\ IsData(ev) /\ ev.packet.ApplicationLayer \in BadPayloads
    /\ ClientOf(ev) \in synSeen
    /\ rcvd[ClientOf(ev)] > AppLen(ev.packet.ApplicationLayer)

-----------------------------------------------------------------------------
(* C8 *)

\* C8 as claimed: for every client c whose SYN has been processed, seqs[c] and acks[c]
\* never decrease from one state to the next.
C8_NeverDecrease ==
    [][ \A c \in synSeen :
          /\ Le32(Get(seqs, c), Get(seqs', c))
          /\ Le32(Get(acks, c), Get(acks', c)) ]_vars

\* the value went from a to b by adding a payload length that took it past 2^32
Wrapped32(a, n, b) == n > 0 /\ IsPlus32(a, n, b) /\ Lt32(b, a)

\* C8 amended: for every client c, seqs[c] and acks[c] never decrease from one state
\* to the next, except that a SYN from c sets seqs[c] to 0 and acks[c] to isn + 1, and
\* that acks[c] wraps around 2^32 when a data frame from c takes it past 2^32.
C8_NeverDecreaseBetweenSyns ==
    [][ \A c \in DOMAIN seqs \cup DOMAIN acks :
          IF IsSyn(ev') /\ ClientOf(ev') = c
          THEN Get(seqs', c) = Zero32 /\ IsSucc32(ev'.packet.Seq, Get(acks', c))
          ELSE /\ Le32(Get(seqs, c), Get(seqs', c))
               /\ \/ Le32(Get(acks, c), Get(acks', c))
                  \/ /\ IsData(ev') /\ ClientOf(ev') = c
                     /\ Wrapped32(Get(acks, c), AppLen(ev'.packet.ApplicationLayer),
                                  Get(acks', c)) ]_vars

\* a data frame from a client with a session has taken its ack past 2^32, after
\* that client had sent two SYNs
C8_Witness ==
    /\ IsData(ev) /\ ClientOf(ev) \in synSeen
    /\ rcvd[ClientOf(ev)] > 0
    /\ Lt32(acks[ClientOf(ev)], isn[ClientOf(ev)])
    /\ id = 2

-----------------------------------------------------------------------------
(* C9 *)

\* C9: seqs and acks hold a key for client c only if handleListen has processed a SYN
\* frame from c.
C9_SessionsOnlyBySyn ==
    /\ DOMAIN seqs \subseteq synSeen
    /\ DOMAIN acks \subseteq synSeen

-----------------------------------------------------------------------------
(* C10 *)

\* C10: for every entry of the reverse NAT table, the forward port-allocation table
\* has an entry whose allocated port is the SrcPort of the NAT key.
C10_NatHasForwardEntry ==
    \A k \in DOMAIN nat : \E q \in DOMAIN portDist : portDist[q] = k.SrcPort

-----------------------------------------------------------------------------
(* C11 *)

\* the server-side source port of the frame the last handleListen wrote upstream
ForwardedPort(w) == w[1].data.transport.SrcPort

\* the port that follows a in the cyclic sequence 49152, 49153, ..., 65535, 49152, ...
NextInCycle(a) == IF a = 65535 THEN 49152 ELSE a + 1

\* no two forwarded packets of the history carry the same inner flow key
DistinctKeys(f) == \A x \in f : \A y \in f : x.q = y.q => x = y

\* C11: starting from port cursor 0, the i-th of N distinct inner flow keys is
\* forwarded with port 49152 + (i mod 16384); every allocated port fits 49152..65535;
\* consecutive allocations follow the cyclic port sequence, also across the 16-bit
\* wrap of the cursor from 65535 to 0.
C11_PortSequence ==
    [][ IsForward(ev') =>
          /\ Len(written') = 1
          /\ ForwardedPort(written') \in 49152..65535
          /\ (port = Cardinality(fwd) /\ DistinctKeys(fwd')) =>
                 ForwardedPort(written') = 49152 + (Cardinality(fwd) % 16384)
          /\ IsForward(ev) => ForwardedPort(written') = NextInCycle(ForwardedPort(written)) ]_vars

\* the cursor has wrapped from 65535 to 0: port 65535 was allocated, then 49152
C11_Witness ==
    /\ IsForward(ev) /\ port = 1
    /\ ForwardedPort(written) = 49152
    /\ \E r \in fwd : r.port = 65535
    /\ DistinctKeys(fwd)

-----------------------------------------------------------------------------
(* C12 *)

\* the last upstream frame found no entry in the reverse NAT table
IsMiss(e) == IsUpstream(e) /\ UpstreamKey(e.packet) \notin DOMAIN nat

\* C12: when handleUpstream processes a frame whose reverse key has no entry in nat,
\* it writes nothing and leaves seqs, acks, id, port, portDist and nat unchanged.
C12_MissChangesNothing ==
    [][ IsMiss(ev') =>
          /\ written' = <<>>
          /\ UNCHANGED <<seqs, acks, id, port, portDist, nat>> ]_vars

\* a reply to an allocated port has missed a non-empty reverse NAT table, for a
\* server that has sessions and has used its IPv4 id
C12_Witness ==
    /\ IsMiss(ev) /\ ev.packet.DstPort = 49152
    /\ nat # EmptyMap /\ seqs # EmptyMap /\ id > 0

-----------------------------------------------------------------------------
(* C13 *)

\* C13: for every carrier frame captured on listen handle h, the reverse NAT entry
\* installed for it records h, and handleUpstream writes the reply carrier segment to
\* h and to no other handle.
C13_ReturnAffinity ==
    /\ IsForward(ev) =>
           nat[QNAT(ev.packet.ApplicationLayer)].Handle = CapturedOn(ev.packet)
    /\ IsHit(ev) =>
           /\ Len(written) = 1
           /\ \A r \in fwd :
                  (r.client = AddrKey(nat[UpstreamKey(ev.packet)].SrcIP,
                                      nat[UpstreamKey(ev.packet)].SrcPort))
                      => written[1].handle = CapturedOn([SrcIP |-> r.client[1]])

-----------------------------------------------------------------------------
(* C14 *)

\* the last handleListen forwarded an encapsulated IPv4 packet
IsForwardV4(e) == IsForward(e) /\ e.packet.ApplicationLayer.NetworkLayerType = LayerTypeIPv4

\* C14: when handleListen forwards an encapsulated IPv4 packet with inner TTL t >= 1,
\* the frame it writes to the upstream handle has network source the upstream IPv4
\* address, transport source port the port allocated at this call, destination ip and
\* port of the inner destination, the inner IPv4 id, TTL t - 1 and the inner payload;
\* id and seqs are not modified.
C14_ForwardedFrame ==
    [][ (IsForwardV4(ev') /\ ev'.packet.ApplicationLayer.TTL >= 1) =>
          LET inner == ev'.packet.ApplicationLayer
          IN /\ Len(written') = 1
             /\ written'[1].handle = UpHandle
             /\ written'[1].data.network.type = LayerTypeIPv4
             /\ written'[1].data.network.SrcIP = UpDevIPv4
             /\ written'[1].data.network.DstIP = inner.DstIP
             /\ written'[1].data.network.Id = inner.Id
             /\ written'[1].data.network.TTL = inner.TTL - 1
             /\ written'[1].data.transport.type = inner.TransportLayerType
             /\ written'[1].data.transport.SrcPort = 49152 + (port % 16384)
             /\ written'[1].data.transport.DstPort = inner.DstPort
             /\ written'[1].data.payloadLen = inner.PayloadLen
             /\ UNCHANGED <<id, seqs>> ]_vars

\* the packet of scenario 2 (ttl 64, id 7) has been forwarded from port 49153 by a
\* server that has a session and has used its IPv4 id
C14_Witness ==
    /\ IsForwardV4(ev) /\ ev.packet.ApplicationLayer.Id = 7
    /\ written[1].ok /\ written[1].data.network.TTL = 63
    /\ written[1].data.transport.SrcPort = 49153
    /\ id > 0 /\ seqs # EmptyMap

-----------------------------------------------------------------------------
(* C15 *)

\* C15: for an upstream reply that hits the reverse NAT table, the inner packet carried
\* as the payload of the emitted carrier segment has source ip and port of the remote
\* host that sent the reply, and destination ip and port of the original inner source
\* recorded in the NAT entry.
C15_InnerRestored ==
    [][ IsHit(ev') =>
          LET ps == nat[UpstreamKey(ev'.packet)]
              inner == NATBack(ev'.packet, ps)
          IN /\ inner.SrcIP = ev'.packet.SrcIP
             /\ inner.SrcPort = ev'.packet.SrcPort
             /\ inner.DstIP = ps.EncappedSrcIP
             /\ inner.DstPort = ps.EncappedSrcPort
             /\ Len(written') = 1
             /\ written'[1].data.inner = inner ]_vars

-----------------------------------------------------------------------------
(* C16 *)

\* C16: when decrementing the TTL would underflow (inner IPv4 TTL 0 on ingress, reply
\* TTL 0 on egress) the handler writes nothing, and no frame with TTL 255 is emitted.
C16_UnderflowDrops ==
    /\ (IsForwardV4(ev) /\ ev.packet.ApplicationLayer.TTL = 0) => written = <<>>
    /\ (IsHit(ev) /\ ev.packet.TTL = 0) => written = <<>>
    /\ \A i \in 1..Len(written) :
           written[i].data.network.type = LayerTypeIPv4 => written[i].data.network.TTL # 255

-----------------------------------------------------------------------------
(* C19 *)

\* the last invocation was handleListen on a parsed non-SYN frame without payload
IsPureAck(e) ==
    e.kind = "listen" /\ e.packet # Malformed /\ ~e.packet.SYN /\ e.packet.ApplicationLayer = Nil

\* C19: when handleListen processes a non-SYN carrier frame with no application
\* payload, it writes to no handle and leaves seqs, acks, id, port, portDist and nat
\* unchanged.
C19_PureAckIsIgnored ==
    [][ IsPureAck(ev') =>
          /\ written' = <<>>
          /\ UNCHANGED <<seqs, acks, id, port, portDist, nat>> ]_vars

\* a pure ACK has been processed from a client that has no session, by a server that
\* has forwarded a packet before
C19_Witness ==
    /\ IsPureAck(ev)
    /\ ClientOf(ev) \notin DOMAIN acks
    /\ port > 0 /\ nat # EmptyMap

-----------------------------------------------------------------------------
(* C20 *)

\* the invocation wrote, successfully, an IPv4 packet that the server synthesized: a
\* SYN+ACK of handshake or a carrier segment of handleUpstream
EmittedIPv4(e, w) ==
    /\ IsSyn(e) \/ IsUpstream(e)
    /\ Len(w) = 1 /\ w[1].ok
    /\ w[1].data.network.type = LayerTypeIPv4

\* C20: id is incremented by exactly 1 (mod 2^16) by an invocation that successfully
\* writes an IPv4 SYN+ACK or an IPv4 carrier segment and is unchanged by every other
\* invocation (failed write in handshake or handleUpstream, IPv6 packet); when
\* handleUpstream does not write successfully, seqs is unchanged.
C20_CountersOnEmission ==
    [][ /\ id' = IF EmittedIPv4(ev', written') THEN (id + 1) % M16 ELSE id
        /\ (IsUpstream(ev') /\ ~(Len(written') = 1 /\ written'[1].ok)) => UNCHANGED seqs
      ]_vars

\* the write of an IPv4 SYN+ACK has failed and left id at 1, after the handshake of an
\* IPv6 client and one successful IPv4 SYN+ACK
C20_Witness ==
    /\ IsSyn(ev) /\ IsV4(ev.packet.SrcIP)
    /\ Len(written) = 1 /\ ~written[1].ok
    /\ id = 1 /\ nev = 3
    /\ \E c \in synSeen : ~IsV4(c[1])

-----------------------------------------------------------------------------
(* The handlers at the granularity of their accesses to the shared fields.   *)
(* Open starts one goroutine per listen handle and reads the upstream handle *)
(* itself; the handlers take no lock, so the accesses of different           *)
(* goroutines to p.seqs, p.acks, p.id, p.port and p.nat interleave.  A map   *)
(* assignment takes two steps (the runtime starts the assignment, then       *)
(* stores); an access to a map that another goroutine is assigning to is a   *)
(* data race, whose outcomes are that the access goes on or that the runtime *)
(* stops the program.                                                        *)
(* In this specification written is the last WritePacketData call made, and  *)
(* ev, isn, rcvd, sent, synSeen are not used.                                *)

\* the frames a listen reader takes: SYNs with the sequence number 42, and data frames
\* with an unparseable payload or with the UDP packet of the inner source port 55555
RaceListenFrames(g) ==
    { f \in FramesOn(g) :
        /\ f # Malformed
        /\ IF f.SYN
           THEN f.Seq = U32(0, 42)
           ELSE /\ f.ApplicationLayer # Nil
                /\ \/ f.ApplicationLayer \in BadPayloads
                   \/ /\ f.ApplicationLayer.SrcPort = 55555
                      /\ f.ApplicationLayer.TransportLayerType = LayerTypeUDP }

\* the frames the upstream reader takes: the UDP replies addressed to port 55555
RaceUpstreamFrames ==
    { f \in UpstreamFrames :
        f # Malformed /\ f.TransportLayerType = LayerTypeUDP /\ f.DstPort = 55555 }

At(g, l) == thr[g].pc = l

\* the handler returns; the goroutine waits for its next packet
Return(g) == [thr EXCEPT ![g] = [IdleThread EXCEPT !.n = thr[g].n]]

\* indicator.SrcAddr() of the frame goroutine g is handling
SrcAddrOf(g) == AddrKey(thr[g].packet.SrcIP, thr[g].packet.SrcPort)

\* the variables no step of this specification changes
RaceFixed == <<portDist, ev, isn, rcvd, sent, synSeen>>

\* for packet := range packetSrc.Packets() { p.handleListen(packet, handle) }
RaceReceiveListen(g) ==
    /\ nev < MaxEvents
    /\ At(g, "idle")
    /\ \E f \in RaceListenFrames(g), h \in LoopHandles(g) :
           thr' = [thr EXCEPT ![g].pc = IF f.SYN THEN "hs155" ELSE "d267",
                              ![g].packet = f, ![g].handle = h]
    /\ nev' = nev + 1
    /\ UNCHANGED <<seqs, acks, id, port, nat, written, fwd, RaceFixed>>

\* p.seqs[srcAddr] = 0: the assignment starts
HsSeqBegin(g) ==
    /\ At(g, "hs155")
    /\ thr' = [thr EXCEPT ![g].pc = "hs155w"]
    /\ UNCHANGED <<seqs, acks, id, port, nat, written, fwd, nev, RaceFixed>>

\* p.seqs[srcAddr] = 0: the store
HsSeqEnd(g) ==
    /\ At(g, "hs155w")
    /\ seqs' = Put(seqs, SrcAddrOf(g), HandshakeSeq)
    /\ thr' = [thr EXCEPT ![g].pc = "hs158"]
    /\ UNCHANGED <<acks, id, port, nat, written, fwd, nev, RaceFixed>>

\* p.acks[srcAddr] = indicator.Seq + 1: the assignment starts
HsAckBegin(g) ==
    /\ At(g, "hs158")
    /\ thr' = [thr EXCEPT ![g].pc = "hs158w"]
    /\ UNCHANGED <<seqs, acks, id, port, nat, written, fwd, nev, RaceFixed>>

\* p.acks[srcAddr] = indicator.Seq + 1: the store
HsAckEnd(g) ==
    /\ At(g, "hs158w")
    /\ acks' = Put(acks, SrcAddrOf(g), HandshakeAck(thr[g].packet))
    /\ thr' = [thr EXCEPT ![g].pc = "hs161"]
    /\ UNCHANGED <<seqs, id, port, nat, written, fwd, nev, RaceFixed>>

\* the reads of p.seqs[srcAddr], p.acks[srcAddr] and p.id that build the SYN+ACK
HsRead(g) ==
    /\ At(g, "hs161")
    /\ thr' = [thr EXCEPT ![g].pc = "hs216",
                          ![g].seq = Get(seqs, SrcAddrOf(g)),
                          ![g].ack = Get(acks, SrcAddrOf(g)),
                          ![g].ipid = id]
    /\ UNCHANGED <<seqs, acks, id, port, nat, written, fwd, nev, RaceFixed>>

\* p.upHandle.WritePacketData(data); on success, for IPv4, the load of p.id++
HsWrite(g) ==
    /\ At(g, "hs216")
    /\ \E wok \in BOOLEAN :
           /\ written' = << WriteCall(UpHandle,
                              HandshakeData(thr[g].packet, thr[g].seq, thr[g].ack, thr[g].ipid),
                              wok) >>
           /\ thr' = IF wok /\ HandshakeNetworkLayerType(thr[g].packet) = LayerTypeIPv4
                     THEN [thr EXCEPT ![g].pc = "hs224", ![g].tmp = id]
                     ELSE Return(g)
    /\ UNCHANGED <<seqs, acks, id, port, nat, fwd, nev, RaceFixed>>

\* p.id++: the store
HsIdStore(g) ==
    /\ At(g, "hs224")
    /\ id' = (thr[g].tmp + 1) % M16
    /\ thr' = Return(g)
    /\ UNCHANGED <<seqs, acks, port, nat, written, fwd, nev, RaceFixed>>

\* p.acks[srcAddr] = p.acks[srcAddr] + ...: the read of the right-hand side
DataAckRead(g) ==
    /\ At(g, "d267")
    /\ thr' = [thr EXCEPT ![g].pc = "d267a", ![g].ack = Get(acks, SrcAddrOf(g))]
    /\ UNCHANGED <<seqs, acks, id, port, nat, written, fwd, nev, RaceFixed>>

\* ... the assignment starts
DataAckBegin(g) ==
    /\ At(g, "d267a")
    /\ thr' = [thr EXCEPT ![g].pc = "d267w"]
    /\ UNCHANGED <<seqs, acks, id, port, nat, written, fwd, nev, RaceFixed>>

\* ... the store; then parseEncappedPacket, which returns on an unparseable payload
DataAckEnd(g) ==
    /\ At(g, "d267w")
    /\ acks' = Put(acks, SrcAddrOf(g),
                   DataAck(thr[g].ack, AppLen(thr[g].packet.ApplicationLayer)))
    /\ thr' = IF thr[g].packet.ApplicationLayer \in BadPayloads
              THEN Return(g)
              ELSE [thr EXCEPT ![g].pc = "d284"]
    /\ UNCHANGED <<seqs, id, port, nat, written, fwd, nev, RaceFixed>>

\* distPort, ok := p.portDist[qPortDist]; if !ok { distPort = p.distPort() ...
DataPort(g) ==
    /\ At(g, "d284")
    /\ LET q == QPortDist(thr[g].packet, thr[g].packet.ApplicationLayer)
       IN thr' = [thr EXCEPT ![g].pc = IF q \in DOMAIN portDist THEN "d366" ELSE "d287",
                             ![g].dPort = LookupPort(q)]
    /\ UNCHANGED <<seqs, acks, id, port, nat, written, fwd, nev, RaceFixed>>

\* p.port++: the load
DataPortLoad(g) ==
    /\ At(g, "d287")
    /\ thr' = [thr EXCEPT ![g].pc = "d287s", ![g].tmp = port]
    /\ UNCHANGED <<seqs, acks, id, port, nat, written, fwd, nev, RaceFixed>>

\* p.port++: the store
DataPortStore(g) ==
    /\ At(g, "d287s")
    /\ port' = (thr[g].tmp + 1) % M16
    /\ thr' = [thr EXCEPT ![g].pc = "d366", ![g].n = @ + 1]
    /\ UNCHANGED <<seqs, acks, id, nat, written, fwd, nev, RaceFixed>>

\* p.nat[qNAT] = ps: the assignment starts
DataNatBegin(g) ==
    /\ At(g, "d366")
    /\ thr' = [thr EXCEPT ![g].pc = "d366w"]
    /\ UNCHANGED <<seqs, acks, id, port, nat, written, fwd, nev, RaceFixed>>

\* p.nat[qNAT] = ps: the store
DataNatEnd(g) ==
    /\ At(g, "d366w")
    /\ LET app == thr[g].packet.ApplicationLayer
       IN nat' = Put(nat, QNAT(app),
                     PacketSrc(thr[g].packet, QPortDist(thr[g].packet, app), thr[g].handle))
    /\ thr' = [thr EXCEPT ![g].pc = "d374"]
    /\ UNCHANGED <<seqs, acks, id, port, written, fwd, nev, RaceFixed>>

\* p.upHandle.WritePacketData(data) of the redirected frame
DataWrite(g) ==
    /\ At(g, "d374")
    /\ \E wok \in BOOLEAN :
           LET app == thr[g].packet.ApplicationLayer
           IN /\ written' = << WriteCall(UpHandle, ForwardData(app, thr[g].dPort), wok) >>
              /\ fwd' = fwd \cup {FwdRecord(thr[g].packet, app, QPortDist(thr[g].packet, app),
                                            thr[g].dPort, thr[g].handle, wok)}
    /\ thr' = Return(g)
    /\ UNCHANGED <<seqs, acks, id, port, nat, nev, RaceFixed>>

\* for packet := range packetSrc.Packets() { p.handleUpstream(packet) }
RaceReceiveUpstream ==
    /\ nev < MaxEvents
    /\ At(UpHandle, "idle")
    /\ \E f \in RaceUpstreamFrames :
           thr' = [thr EXCEPT ![UpHandle].pc = "u409", ![UpHandle].packet = f]
    /\ nev' = nev + 1
    /\ UNCHANGED <<seqs, acks, id, port, nat, written, fwd, RaceFixed>>

\* ps, ok := p.nat[q]; if !ok { return }
UpLookup ==
    /\ At(UpHandle, "u409")
    /\ thr' = IF UpstreamKey(thr[UpHandle].packet) \notin DOMAIN nat
              THEN Return(UpHandle)
              ELSE [thr EXCEPT ![UpHandle].pc = "u448",
                               ![UpHandle].ps = nat[UpstreamKey(thr[UpHandle].packet)]]
    /\ UNCHANGED <<seqs, acks, id, port, nat, written, fwd, nev, RaceFixed>>

\* the reads of p.seqs[addr], p.acks[addr] and p.id that build the carrier segment
UpRead ==
    /\ At(UpHandle, "u448")
    /\ LET addr == AddrKey(thr[UpHandle].ps.SrcIP, thr[UpHandle].ps.SrcPort)
       IN thr' = [thr EXCEPT ![UpHandle].pc = "u483",
                             ![UpHandle].seq = Get(seqs, addr),
                             ![UpHandle].ack = Get(acks, addr),
                             ![UpHandle].ipid = id]
    /\ UNCHANGED <<seqs, acks, id, port, nat, written, fwd, nev, RaceFixed>>

\* switch newLinkLayerType { ... default: return }; with a supported link layer type
\* the write, the advance of p.seqs[addr] and p.id++ would follow
UpLink ==
    /\ At(UpHandle, "u483")
    /\ thr' = Return(UpHandle)
    /\ IF UpstreamDevIP = NoAddr
          \/ UpstreamLinkLayerType \notin {LayerTypeLoopback, LayerTypeEthernet}
       THEN UNCHANGED <<seqs, id, written>>
       ELSE \E wok \in BOOLEAN :
                LET ps == thr[UpHandle].ps
                    addr == AddrKey(ps.SrcIP, ps.SrcPort)
                    data == UpstreamData(thr[UpHandle].packet, ps, thr[UpHandle].seq,
                                         thr[UpHandle].ack, thr[UpHandle].ipid)
                IN /\ written' = << WriteCall(ps.Handle, data, wok) >>
                   /\ seqs' = IF wok
                              THEN Put(seqs, addr, UpstreamSeq(Get(seqs, addr), data.payloadLen))
                              ELSE seqs
                   /\ id' = IF wok /\ UpstreamNetworkLayerType = LayerTypeIPv4
                            THEN (id + 1) % M16 ELSE id
    /\ UNCHANGED <<acks, port, nat, fwd, nev, RaceFixed>>

\* the maps the next step of goroutine g reads or starts to assign to
MapAccess(g) ==
    CASE thr[g].pc = "hs155" -> {"seqs"}
      [] thr[g].pc = "hs158" -> {"acks"}
      [] thr[g].pc = "hs161" -> {"seqs", "acks"}
      [] thr[g].pc = "d267"  -> {"acks"}
      [] thr[g].pc = "d267a" -> {"acks"}
      [] thr[g].pc = "d284"  -> {"portDist"}
      [] thr[g].pc = "d366"  -> {"nat"}
      [] thr[g].pc = "u409"  -> {"nat"}
      [] thr[g].pc = "u448"  -> {"seqs", "acks"}
      [] OTHER -> {}

\* the maps goroutine g is in the middle of an assignment to
MapWriting(g) ==
    CASE thr[g].pc = "hs155w" -> {"seqs"}
      [] thr[g].pc = "hs158w" -> {"acks"}
      [] thr[g].pc = "d267w"  -> {"acks"}
      [] thr[g].pc = "d366w"  -> {"nat"}
      [] OTHER -> {}

\* an access to a map another goroutine is assigning to: the runtime may stop the
\* program (concurrent map read and map write, concurrent map writes)
Throw(g) ==
    /\ \E o \in Goroutines \ {g} : MapAccess(g) \cap MapWriting(o) # {}
    /\ thr' = [x \in Goroutines |-> [thr[x] EXCEPT !.pc = "fatal"]]
    /\ UNCHANGED <<seqs, acks, id, port, nat, written, fwd, nev, RaceFixed>>

RaceNext ==
    \/ \E g \in ListenHandles : RaceReceiveListen(g)
    \/ \E g \in ListenHandles : HsSeqBegin(g)
    \/ \E g \in ListenHandles : HsSeqEnd(g)
    \/ \E g \in ListenHandles : HsAckBegin(g)
    \/ \E g \in ListenHandles : HsAckEnd(g)
    \/ \E g \in ListenHandles : HsRead(g)
    \/ \E g \in ListenHandles : HsWrite(g)
    \/ \E g \in ListenHandles : HsIdStore(g)
    \/ \E g \in ListenHandles : DataAckRead(g)
    \/ \E g \in ListenHandles : DataAckBegin(g)
    \/ \E g \in ListenHandles : DataAckEnd(g)
    \/ \E g \in ListenHandles : DataPort(g)
    \/ \E g \in ListenHandles : DataPortLoad(g)
    \/ \E g \in ListenHandles : DataPortStore(g)
    \/ \E g \in ListenHandles : DataNatBegin(g)
    \/ \E g \in ListenHandles : DataNatEnd(g)
    \/ \E g \in ListenHandles : DataWrite(g)
    \/ RaceReceiveUpstream
    \/ UpLookup
    \/ UpRead
    \/ UpLink
    \/ \E g \in Goroutines : Throw(g)

SpecRace == Init /\ [][RaceNext]_vars

-----------------------------------------------------------------------------
(* C17 *)

\* the number of p.port++ statements completed by the listen readers
Allocations == thr["listen0"].n + thr["listen1"].n

\* C17: under any interleaving of the listen readers, no two distinct flows are
\* forwarded with the same server-side port, and no increment of the cursor is lost:
\* whenever no reader is between the load and the store of p.port++, port is the number
\* of allocations made.
C17_AtomicAllocation ==
    /\ \A r1, r2 \in fwd : r1.q # r2.q => r1.port # r2.port
    /\ (\A g \in ListenHandles : ~At(g, "d287s") /\ ~At(g, "fatal")) => port = Allocations

-----------------------------------------------------------------------------
(* C18 *)

\* C18: the accesses to seqs[c] are serialized: while the upstream reader is between
\* its read of seqs[c] for a carrier segment and its return, no listen reader is in the
\* middle of the assignment to seqs[c] of a handshake of client c.
C18_SeqAccessSerialized ==
    \A g \in ListenHandles :
        ~ /\ At(UpHandle, "u483")
          /\ At(g, "hs155w")
          /\ SrcAddrOf(g) = AddrKey(thr[UpHandle].ps.SrcIP, thr[UpHandle].ps.SrcPort)

====
